---- MODULE Spec2Model ----
(***************************************************************************)
(* Model of src/CLI.py of ColorWallpaper: the typed argument parsers       *)
(* in_range and fix_casing, and the colour resolution at the end of        *)
(* get_options (lines 185-215).                                            *)
(*                                                                         *)
(* Colours are the grey levels 0..MaxColor.  The Color class (Color.py) is *)
(* not part of the modelled source; its operations are modelled from their *)
(* documented contract: a symmetric contrast in [1, 21] and an inversion   *)
(* that either yields a colour meeting the minimum contrast or raises.     *)
(* Contrasts and thresholds are in tenths (45 is 4.5).                     *)
(***************************************************************************)
EXTENDS Integers, Sequences, FiniteSets, TLC

VARIABLES
    args,       \* the Namespace parse_args returned: raw strings and thresholds
    random,     \* local `random` of get_options
    inverted,   \* local `inverted` of get_options
    color,      \* ret.color once it is a Color
    color2,     \* ret.color2 once it is a Color
    pc,         \* position in get_options' resolution code
    nRandom,    \* history: calls of Color.random() so far (saturating)
    nInvert,    \* history: calls of Color.inverted() so far (saturating)
    passes,     \* history: restarts of the outer `while True` loop (saturating)
    names,      \* fix_casing: the bound names
    carg,       \* fix_casing: the argument of cased
    cres,       \* fix_casing: the outcome of cased
    kind,       \* in_range: the bound type, "int" or "float"
    low,        \* in_range: first bound as given
    high,       \* in_range: second bound as given
    rarg,       \* in_range: the number the argument string denotes
    rres        \* in_range: the outcome of is_in_range

vars == <<args, random, inverted, color, color2, pc, nRandom, nInvert, passes,
          names, carg, cres, kind, low, high, rarg, rres>>

resolverVars == <<args, random, inverted, color, color2, pc, nRandom, nInvert, passes>>
casingVars == <<names, carg, cres>>
rangeVars == <<kind, low, high, rarg, rres>>

(***************************************************************************)
(* Bounds.                                                                 *)
(***************************************************************************)
MaxColor == 4
MaxCount == 2
MaxWordLen == 2
MaxNames == 3
MaxNum == 5

(***************************************************************************)
(* The Color collaborator.                                                 *)
(***************************************************************************)
None == -1

Colors == 0..MaxColor

Max(a, b) == IF a >= b THEN a ELSE b
Min(a, b) == IF a <= b THEN a ELSE b

\* 20 * relative luminance of a grey level, in 0..20
Lum(c) == (20 * c) \div MaxColor

\* Color.__truediv__: the WCAG contrast (L1 + 0.05) / (L2 + 0.05), in tenths
Contrast(a, b) == ((Max(Lum(a), Lum(b)) + 1) * 10) \div (Min(Lum(a), Lum(b)) + 1)

\* Color.inverted(min_contrast): the complementary colour, or None for the
\* RuntimeError raised when it does not reach min_contrast
Inverted(c, min_contrast) ==
    LET inv == MaxColor - c
    IN  IF Contrast(c, inv) < min_contrast THEN None ELSE inv

\* Color.from_str: the text of a colour is the decimal of its level; None
\* stands for the error raised on any other text
FromStr(s) ==
    IF \E c \in Colors : ToString(c) = s
    THEN CHOOSE c \in Colors : ToString(c) = s
    ELSE None

\* common.normalized: case and surrounding blanks do not matter
normalized(s) ==
    CASE s = "Random" -> "random"
      [] s = " random" -> "random"
      [] s = "INVERTED" -> "inverted"
      [] OTHER -> s

(***************************************************************************)
(* The arguments get_options can receive.                                  *)
(***************************************************************************)
ColorTexts == {ToString(c) : c \in Colors}

\* --min-contrast and --overlay-contrast are in_range(float, 1, 21): 1, 4.5, 21
Thresholds == {10, 45, 210}

ArgSpace ==
    [color : {"random", "Random", "bogus"} \cup ColorTexts,
     color2 : {"inverted", "INVERTED", "bogus"} \cup ColorTexts,
     overlay_color : {None} \cup Colors,
     overlay_contrast : Thresholds,
     min_contrast : Thresholds]

Bump(n) == IF n < MaxCount THEN n + 1 ELSE n

casingIdle == names = << >> /\ carg = << >> /\ cres = <<"idle", << >> >>
rangeIdle ==
    /\ kind = "float"
    /\ low = 0
    /\ high = 0
    /\ rarg = 0
    /\ rres = [status |-> "idle", value |-> 0]

Init ==
    /\ args \in ArgSpace
    /\ random = FALSE
    /\ inverted = FALSE
    /\ color = None
    /\ color2 = None
    /\ pc = "parse"
    /\ nRandom = 0
    /\ nInvert = 0
    /\ passes = 0
    /\ casingIdle
    /\ rangeIdle

(***************************************************************************)
(* get_options, lines 185-191: the sentinels and the first background.     *)
(***************************************************************************)
ResolveBackground(c) ==
    /\ pc = "parse"
    /\ random' = (normalized(args.color) = "random")
    /\ inverted' = (normalized(args.color2) = "inverted")
    /\ IF normalized(args.color) = "random"
       THEN /\ color' = c
            /\ nRandom' = Bump(nRandom)
            /\ pc' = "overlay"
       ELSE /\ color' = FromStr(args.color)
            /\ nRandom' = nRandom
            /\ pc' = IF FromStr(args.color) = None THEN "ParseError" ELSE "overlay"
    /\ UNCHANGED <<args, color2, nInvert, passes, casingVars, rangeVars>>

\* variant: the pinned-pair check without its `not random` guard's raise, so an
\* incompatible explicit background falls into the re-draw loop
CheckOverlay_retry ==
    /\ pc = "overlay"
    /\ IF args.overlay_color # None
       THEN pc' = "redraw"
       ELSE pc' = "highlight"
    /\ UNCHANGED <<args, random, inverted, color, color2, nRandom, nInvert, passes,
                   casingVars, rangeVars>>

(***************************************************************************)
(* Lines 193-199: top of the `while True` loop, the pinned-pair check.     *)
(***************************************************************************)
CheckOverlay ==
    /\ pc = "overlay"
    /\ IF args.overlay_color # None
       THEN IF ~random /\ Contrast(color, args.overlay_color) < args.overlay_contrast
            THEN pc' = "Fatal"
            ELSE pc' = "redraw"
       ELSE pc' = "highlight"
    /\ UNCHANGED <<args, random, inverted, color, color2, nRandom, nInvert, passes,
                   casingVars, rangeVars>>

\* variant: `if` instead of `while` at line 201, one re-draw and no re-test
RedrawForOverlay_once(c) ==
    /\ pc = "redraw"
    /\ pc' = "highlight"
    /\ IF Contrast(color, args.overlay_color) < args.overlay_contrast
       THEN /\ color' = c
            /\ nRandom' = Bump(nRandom)
       ELSE UNCHANGED <<color, nRandom>>
    /\ UNCHANGED <<args, random, inverted, color2, nInvert, passes, casingVars, rangeVars>>

(***************************************************************************)
(* Lines 201-202: one test of the inner while loop, and its body.          *)
(***************************************************************************)
RedrawForOverlay(c) ==
    /\ pc = "redraw"
    /\ IF Contrast(color, args.overlay_color) < args.overlay_contrast
       THEN /\ color' = c
            /\ nRandom' = Bump(nRandom)
            /\ pc' = "redraw"
       ELSE /\ pc' = "highlight"
            /\ UNCHANGED <<color, nRandom>>
    /\ UNCHANGED <<args, random, inverted, color2, nInvert, passes, casingVars, rangeVars>>

\* variant: after a failed inversion the new background is inverted at once,
\* without going back to the overlay check of line 194
ResolveHighlight_noRestart(c) ==
    /\ pc = "highlight"
    /\ IF inverted
       THEN /\ nInvert' = Bump(nInvert)
            /\ IF Inverted(color, args.min_contrast) = None
               THEN /\ color' = c
                    /\ nRandom' = Bump(nRandom)
                    /\ passes' = Bump(passes)
                    /\ pc' = "highlight"
                    /\ UNCHANGED color2
               ELSE /\ color2' = Inverted(color, args.min_contrast)
                    /\ pc' = "Resolved"
                    /\ UNCHANGED <<color, nRandom, passes>>
       ELSE /\ color2' = FromStr(args.color2)
            /\ pc' = IF FromStr(args.color2) = None THEN "ParseError" ELSE "Resolved"
            /\ UNCHANGED <<color, nRandom, nInvert, passes>>
    /\ UNCHANGED <<args, random, inverted, casingVars, rangeVars>>

\* variant: the handler of line 207 retries without drawing a new background
ResolveHighlight_keep(c) ==
    /\ pc = "highlight"
    /\ IF inverted
       THEN /\ nInvert' = Bump(nInvert)
            /\ IF Inverted(color, args.min_contrast) = None
               THEN /\ passes' = Bump(passes)
                    /\ pc' = "overlay"
                    /\ UNCHANGED <<color, color2, nRandom>>
               ELSE /\ color2' = Inverted(color, args.min_contrast)
                    /\ pc' = "Resolved"
                    /\ UNCHANGED <<color, nRandom, passes>>
       ELSE /\ color2' = FromStr(args.color2)
            /\ pc' = IF FromStr(args.color2) = None THEN "ParseError" ELSE "Resolved"
            /\ UNCHANGED <<color, nRandom, nInvert, passes>>
    /\ UNCHANGED <<args, random, inverted, casingVars, rangeVars>>

\* variant: an explicit color2 is held to min_contrast too, and the background
\* is re-drawn when it falls short
ResolveHighlight_checked(c) ==
    /\ pc = "highlight"
    /\ IF inverted
       THEN /\ nInvert' = Bump(nInvert)
            /\ IF Inverted(color, args.min_contrast) = None
               THEN /\ color' = c
                    /\ nRandom' = Bump(nRandom)
                    /\ passes' = Bump(passes)
                    /\ pc' = "overlay"
                    /\ UNCHANGED color2
               ELSE /\ color2' = Inverted(color, args.min_contrast)
                    /\ pc' = "Resolved"
                    /\ UNCHANGED <<color, nRandom, passes>>
       ELSE IF FromStr(args.color2) # None
               /\ Contrast(color, FromStr(args.color2)) < args.min_contrast
            THEN /\ color' = c
                 /\ nRandom' = Bump(nRandom)
                 /\ passes' = Bump(passes)
                 /\ pc' = "overlay"
                 /\ UNCHANGED <<color2, nInvert>>
            ELSE /\ color2' = FromStr(args.color2)
                 /\ pc' = IF FromStr(args.color2) = None THEN "ParseError" ELSE "Resolved"
                 /\ UNCHANGED <<color, nRandom, nInvert, passes>>
    /\ UNCHANGED <<args, random, inverted, casingVars, rangeVars>>

(***************************************************************************)
(* Lines 204-213: the highlight; `break` leads to the return of line 215.  *)
(***************************************************************************)
ResolveHighlight(c) ==
    /\ pc = "highlight"
    /\ IF inverted
       THEN /\ nInvert' = Bump(nInvert)
            /\ IF Inverted(color, args.min_contrast) = None
               THEN /\ color' = c
                    /\ nRandom' = Bump(nRandom)
                    /\ passes' = Bump(passes)
                    /\ pc' = "overlay"
                    /\ UNCHANGED color2
               ELSE /\ color2' = Inverted(color, args.min_contrast)
                    /\ pc' = "Resolved"
                    /\ UNCHANGED <<color, nRandom, passes>>
       ELSE /\ color2' = FromStr(args.color2)
            /\ pc' = IF FromStr(args.color2) = None THEN "ParseError" ELSE "Resolved"
            /\ UNCHANGED <<color, nRandom, nInvert, passes>>
    /\ UNCHANGED <<args, random, inverted, casingVars, rangeVars>>

Next ==
    \E c \in Colors :
        \/ ResolveBackground(c)
        \/ CheckOverlay
        \/ RedrawForOverlay(c)
        \/ ResolveHighlight(c)

Spec == Init /\ [][Next]_vars

\* get_options is sequential code that runs until it returns or raises
FairSpec == Init /\ [][Next]_vars /\ WF_vars(Next)

\* in addition Color.random() is uniform: a colour that the re-draw of line 208
\* can draw again and again is eventually drawn there
LiveSpec ==
    /\ Init
    /\ [][Next]_vars
    /\ WF_vars(Next)
    /\ \A c \in Colors : SF_vars(ResolveHighlight(c))

(***************************************************************************)
(* fix_casing, lines 71-106.  A string is a sequence of characters.        *)
(***************************************************************************)
Alphabet == {"a", "A", "b", "B"}

Words == UNION {[1..n -> Alphabet] : n \in 1..MaxWordLen}

NameLists == UNION {[1..n -> Words] : n \in 1..MaxNames}

\* str.lower on one character
LowerChar(ch) ==
    CASE ch = "A" -> "a"
      [] ch = "B" -> "b"
      [] OTHER -> ch

\* str.lower
lower(w) == [i \in 1..Len(w) |-> LowerChar(w[i])]

\* tuple.count
count(seq, x) == Cardinality({i \in 1..Len(seq) : seq[i] = x})

\* tuple.index: the first position holding x
index(seq, x) == CHOOSE i \in 1..Len(seq) : seq[i] = x /\ \A j \in 1..(i - 1) : seq[j] # x

\* x in seq
contains(seq, x) == \E i \in 1..Len(seq) : seq[i] = x

\* fix_casing(nms)(arg), lines 88-104; the outcome is <<"ok", spelling>> or
\* <<error, arg>>
cased(nms, arg) ==
    LET low_names == [i \in 1..Len(nms) |-> lower(nms[i])]
        duplicate_names == {low_names[i] : i \in {j \in 1..Len(nms) : count(low_names, low_names[j]) > 1}}
    IN  IF ~contains(low_names, lower(arg))
        THEN <<"Invalid choice", arg>>
        ELSE IF contains(nms, arg)
             THEN <<"ok", nms[index(nms, arg)]>>
             ELSE IF lower(arg) \notin duplicate_names
                  THEN <<"ok", nms[index(low_names, lower(arg))]>>
                  ELSE <<"Ambiguous choice", arg>>

resolverIdle ==
    /\ args = [color |-> "random", color2 |-> "inverted", overlay_color |-> None,
               overlay_contrast |-> 10, min_contrast |-> 10]
    /\ random = FALSE
    /\ inverted = FALSE
    /\ color = None
    /\ color2 = None
    /\ pc = "idle"
    /\ nRandom = 0
    /\ nInvert = 0
    /\ passes = 0

CasingInit ==
    /\ names \in NameLists
    /\ carg \in Words
    /\ cres = <<"idle", << >> >>
    /\ resolverIdle
    /\ rangeIdle

\* one call of the parser fix_casing(names) returned
Cased ==
    /\ cres[1] = "idle"
    /\ cres' = cased(names, carg)
    /\ UNCHANGED <<names, carg, resolverVars, rangeVars>>

CasingSpec == CasingInit /\ [][Cased]_vars

(***************************************************************************)
(* in_range, lines 48-68.  Numbers are counted in halves (3 is 1.5).       *)
(***************************************************************************)
Numbers == (0 - MaxNum)..MaxNum

\* typ(float(arg)): float keeps the number, int truncates toward zero
Convert(typ, v) ==
    IF typ = "float"
    THEN v
    ELSE IF v >= 0 THEN (v \div 2) * 2 ELSE 0 - (((0 - v) \div 2) * 2)

\* variant: line 56 left out, the bounds used as given
SortedBounds_asGiven(lo, hi) == <<lo, hi>>

\* line 56: low, high = sorted((low, high))
SortedBounds(lo, hi) == <<Min(lo, hi), Max(lo, hi)>>

\* in_range(typ, lo, hi)(arg), lines 62-66
is_in_range(typ, lo, hi, arg) ==
    LET b == SortedBounds(lo, hi)
        v == Convert(typ, arg)
    IN  IF ~(b[1] <= v /\ v <= b[2])
        THEN [status |-> "ArgumentTypeError", value |-> 0]
        ELSE [status |-> "ok", value |-> v]

RangeInit ==
    /\ kind \in {"int", "float"}
    /\ low \in Numbers
    /\ high \in Numbers
    /\ rarg \in Numbers
    /\ rres = [status |-> "idle", value |-> 0]
    /\ resolverIdle
    /\ casingIdle

\* one call of the parser in_range(kind, low, high) returned
IsInRange ==
    /\ rres.status = "idle"
    /\ rres' = is_in_range(kind, low, high, rarg)
    /\ UNCHANGED <<kind, low, high, rarg, resolverVars, casingVars>>

RangeSpec == RangeInit /\ [][IsInRange]_vars

(***************************************************************************)
(* Properties of the colour resolution.                                    *)
(***************************************************************************)
Explicit == normalized(args.color) # "random"
Given == FromStr(args.color)
WantsInverted == normalized(args.color2) = "inverted"
HasOverlay == args.overlay_color # None

\* C1: whenever resolution returns, the returned background meets the overlay
\* contrast against the overlay colour (if one is present), and, if color2 was
\* the sentinel "inverted", the returned highlight is the successful inversion
\* at min_contrast of the returned background.
C1_ResolvedMeetsConstraints ==
    pc = "Resolved" =>
        /\ HasOverlay => Contrast(color, args.overlay_color) >= args.overlay_contrast
        /\ WantsInverted =>
              /\ color2 # None
              /\ color2 = Inverted(color, args.min_contrast)

\* a return with overlay and inversion both active, after a re-draw forced by
\* a failed inversion and at least one more draw
C1_Witness ==
    /\ pc = "Resolved"
    /\ HasOverlay
    /\ args.overlay_contrast > 10
    /\ WantsInverted
    /\ args.min_contrast > 10
    /\ passes >= 1
    /\ nRandom >= 2

\* C2: the contrast RuntimeError is raised only for the pinned pair: not a
\* random background, the compared background is the colour given by --color,
\* nothing was ever drawn, and its contrast with the overlay is too low.
C2_FatalOnlyForPinnedPair ==
    pc = "Fatal" =>
        /\ Explicit
        /\ color = Given
        /\ nRandom = 0
        /\ Contrast(color, args.overlay_color) < args.overlay_contrast

Pinned ==
    /\ Explicit
    /\ Given # None
    /\ HasOverlay
    /\ Contrast(Given, args.overlay_color) < args.overlay_contrast

\* C3: with an explicit --color whose contrast with the given overlay colour is
\* below overlay_contrast, resolution only ever parses, checks and fails: no
\* colour is drawn, no inversion is attempted, and the Fatal error is reached.
C3_FatalPathDeterminism ==
    /\ [](Pinned => /\ pc \in {"parse", "overlay", "Fatal"}
                    /\ nRandom = 0
                    /\ nInvert = 0)
    /\ (Pinned ~> pc = "Fatal")

\* the Fatal error of a pinned pair whose color2 is the sentinel
C3_Witness ==
    /\ Pinned
    /\ pc = "Fatal"
    /\ WantsInverted
    /\ args.min_contrast > 10

BothExplicit ==
    /\ Explicit
    /\ Given # None
    /\ ~WantsInverted
    /\ FromStr(args.color2) # None
    /\ ~HasOverlay

\* C4: with explicit --color and --color2 and no overlay, resolution makes one
\* pass, never draws, never inverts, cannot stop before Resolved, and returns
\* the two parsed colours.
C4_ExplicitPairUnchanged ==
    BothExplicit =>
        /\ nRandom = 0
        /\ nInvert = 0
        /\ passes = 0
        /\ pc \in {"parse", "overlay", "highlight", "Resolved"}
        /\ pc # "Resolved" => ENABLED Next
        /\ pc = "Resolved" => color = Given /\ color2 = FromStr(args.color2)

\* a return of an explicit pair whose contrast is below min_contrast
C4_Witness ==
    /\ BothExplicit
    /\ pc = "Resolved"
    /\ Contrast(color, color2) < args.min_contrast

\* C5: when --color2 is "inverted" and the inversion of the given --color at
\* min_contrast fails, get_options does not return a result.
C5_RaisesWhenInversionFails ==
    (/\ Explicit
     /\ Given # None
     /\ WantsInverted
     /\ Inverted(Given, args.min_contrast) = None) => pc # "Resolved"

Achievable ==
    /\ ~Explicit
    /\ WantsInverted
    /\ ~HasOverlay
    /\ \E c \in Colors : Inverted(c, args.min_contrast) # None

\* C6: with a random background, an inverted highlight, no overlay and a
\* min_contrast some colour can be inverted at, resolution eventually returns,
\* and the returned pair has contrast at least min_contrast.
C6_ResolverLiveness ==
    Achievable ~> (pc = "Resolved" /\ Contrast(color, color2) >= args.min_contrast)

\* a return at min_contrast 4.5 after at least one failed inversion
C6_Witness ==
    /\ Achievable
    /\ pc = "Resolved"
    /\ args.min_contrast = 45
    /\ passes >= 1

\* C9: an inversion failure sends resolution back to the overlay step, and a
\* background reaches the inversion attempt or the return only after meeting
\* the overlay constraint (when an overlay colour is present).
C9_RedrawRestartsAtOverlay ==
    /\ []((pc \in {"highlight", "Resolved"} /\ HasOverlay) =>
             Contrast(color, args.overlay_color) >= args.overlay_contrast)
    /\ [][(pc = "highlight" /\ inverted /\ Inverted(color, args.min_contrast) = None)
             => pc' = "overlay"]_vars

\* a re-drawn background at the inversion attempt, overlay present
C9_Witness ==
    /\ pc = "highlight"
    /\ passes >= 1
    /\ HasOverlay
    /\ args.overlay_contrast > 10
    /\ inverted

\* C10: an explicit --color is never replaced: Color.random() is never called,
\* and every result returns the parsed colour as background.
C10_PinnedBackgroundKept ==
    Explicit =>
        /\ nRandom = 0
        /\ pc = "Resolved" => color = Given
(***************************************************************************)
(* Properties of fix_casing.                                               *)
(***************************************************************************)
Spellings == {names[i] : i \in 1..Len(names)}
Matching == {n \in Spellings : lower(n) = lower(carg)}

\* C7: the three tiers of fix_casing(names)(arg): an exact spelling is
\* returned as it is; otherwise, when exactly one canonical spelling matches
\* case-insensitively, that spelling is returned; otherwise, when several
\* distinct spellings match, the call fails as ambiguous; an arg matching no
\* name case-insensitively fails as invalid.
C7_ThreeTierPrecedence ==
    cres[1] # "idle" =>
        IF Matching = {}
        THEN cres[1] = "Invalid choice"
        ELSE IF carg \in Spellings
             THEN cres = <<"ok", carg>>
             ELSE IF Cardinality(Matching) = 1
                  THEN cres = <<"ok", CHOOSE n \in Matching : TRUE>>
                  ELSE cres[1] = "Ambiguous choice"

(***************************************************************************)
(* Properties of in_range.                                                 *)
(***************************************************************************)
Lo == Min(low, high)
Hi == Max(low, high)

Whole == {n \in Numbers : n % 2 = 0}

\* n is rarg with its fractional part dropped
IsTruncation(n) ==
    /\ n \in Whole
    /\ IF rarg >= 0 THEN n <= rarg /\ rarg < n + 2 ELSE rarg <= n /\ n - 2 < rarg

====
